---- MODULE Spec2Model ----
(***************************************************************************)
(* Model of the End-to-End-Model-Pipeline repository: the orchestrator     *)
(* (main.py), the stage scripts (scripts/run_validation.py) and the        *)
(* validation stage (src/validation/data_validation.py).                   *)
(*                                                                         *)
(* A dataset is abstracted column by column: a column is present or        *)
(* missing, and a present column is clean, holds nulls, holds values the   *)
(* column's value rule rejects ("bad": outside the allowed set, outside    *)
(* the range, or duplicated), or both.  A run on a table that lacks a      *)
(* column ends before any result is reported, so the cells of its other    *)
(* columns are left clean.                                                 *)
(***************************************************************************)
EXTENDS Integers, Sequences, FiniteSets, TLC

(***************************************************************************)
(* Bounds of the model.                                                    *)
(***************************************************************************)
\* how many columns (the first ones of DefectOrder) may deviate from clean
MaxDefectCols == 5

\* the longest column whose cells are followed one by one
MaxCells == 4

\* the number of validation runs in one process
MaxRuns == 2

\* the most rows of a dataset handed to the splitter
MaxRows == 6

\* the most operations made on the ConfigManager of one process
MaxOps == 3

\* the most keys of a key path
MaxKeyDepth == 2

\* the most rows of a table handed to the cleaning step
MaxTableRows == 3

(***************************************************************************)
(* Program constants.                                                      *)
(***************************************************************************)
ROW_MIN == 1000
ROW_MAX == 10000
EXPECTED_COLUMN_COUNT == 21
REPORT_LIMIT == 10

(***************************************************************************)
(* Small helpers on sequences.                                             *)
(***************************************************************************)
Range(s) == {s[i] : i \in 1..Len(s)}

Take(s, n) == SubSeq(s, 1, IF n < Len(s) THEN n ELSE Len(s))

RECURSIVE Flatten(_)
Flatten(ss) == IF ss = << >> THEN << >> ELSE Head(ss) \o Flatten(Tail(ss))

(***************************************************************************)
(* The declared suite (data_validation.py lines 68-192).                   *)
(***************************************************************************)
required_columns ==
    << "customerID", "gender", "SeniorCitizen", "Partner", "Dependents",
       "tenure", "PhoneService", "MultipleLines", "InternetService",
       "OnlineSecurity", "OnlineBackup", "DeviceProtection", "TechSupport",
       "StreamingTV", "StreamingMovies", "Contract",
       "PaperlessBilling", "PaymentMethod",
       "MonthlyCharges", "TotalCharges", "Churn" >>

not_null_columns ==
    << "customerID", "gender", "SeniorCitizen", "Partner", "Dependents",
       "tenure", "PhoneService", "MultipleLines", "InternetService",
       "OnlineSecurity", "OnlineBackup", "DeviceProtection", "TechSupport",
       "StreamingTV", "StreamingMovies", "Contract",
       "PaperlessBilling", "PaymentMethod", "MonthlyCharges", "Churn" >>

\* the columns of the expect_column_values_to_be_in_set calls, in call order
in_set_columns ==
    << "gender", "SeniorCitizen", "Partner", "Dependents", "PhoneService",
       "MultipleLines", "InternetService", "OnlineSecurity", "OnlineBackup",
       "DeviceProtection", "TechSupport", "StreamingTV", "StreamingMovies",
       "Contract", "PaperlessBilling", "PaymentMethod", "Churn" >>

\* an expectation configuration: its type and kwargs.get("column", "N/A")
Exp(t, c) == [expectation_type |-> t, column |-> c]

TableLevel == {"expect_table_row_count_to_be_between",
               "expect_table_column_count_to_equal"}

\* the expectation types that read the cells of their column
ColumnValueTypes == {"expect_column_values_to_not_be_null",
                     "expect_column_values_to_be_in_set",
                     "expect_column_values_to_be_between",
                     "expect_column_values_to_be_of_type",
                     "expect_column_values_to_be_unique"}

TableExpectations ==
    << Exp("expect_table_row_count_to_be_between", "N/A"),
       Exp("expect_table_column_count_to_equal", "N/A") >>

ExistExpectations ==
    [i \in 1..Len(required_columns) |->
        Exp("expect_column_to_exist", required_columns[i])]

\* the not-null loop run over required_columns instead of not_null_columns
NotNullOverRequired ==
    [i \in 1..Len(required_columns) |->
        Exp("expect_column_values_to_not_be_null", required_columns[i])]

NotNullExpectations ==
    [i \in 1..Len(not_null_columns) |->
        Exp("expect_column_values_to_not_be_null", not_null_columns[i])]

InSetExpectations ==
    [i \in 1..Len(in_set_columns) |->
        Exp("expect_column_values_to_be_in_set", in_set_columns[i])]

NumericExpectations ==
    << Exp("expect_column_values_to_be_between", "tenure"),
       Exp("expect_column_values_to_be_between", "MonthlyCharges"),
       Exp("expect_column_values_to_be_of_type", "TotalCharges"),
       Exp("expect_column_values_to_be_between", "TotalCharges"),
       Exp("expect_column_values_to_be_unique", "customerID") >>

\* a suite to which no expectation was added
EmptySuite == << >>

\* every validator.expect_* call of data_validation, in call order
DeclaredSuite ==
    TableExpectations \o ExistExpectations \o NotNullExpectations
        \o InSetExpectations \o NumericExpectations

(***************************************************************************)
(* The dataset: the file at data_path and, when it parses, its table.      *)
(***************************************************************************)
Columns == Range(required_columns)

\* the order in which columns are allowed to deviate under MaxDefectCols
DefectOrder ==
    << "customerID", "gender", "tenure", "TotalCharges", "Churn",
       "MonthlyCharges", "SeniorCitizen", "Partner", "Dependents",
       "PhoneService", "MultipleLines", "InternetService", "OnlineSecurity",
       "OnlineBackup", "DeviceProtection", "TechSupport", "StreamingTV",
       "StreamingMovies", "Contract", "PaperlessBilling", "PaymentMethod" >>

DefectCols == Range(Take(DefectOrder, MaxDefectCols))

\* what the cells of a present column hold
Statuses == {"clean", "nulls", "bad", "nulls_bad"}

RowCounts == {ROW_MIN - 1, ROW_MIN, ROW_MAX + 1}

FileStates == {"ok", "missing", "empty", "unreadable"}

AllClean == [c \in DefectCols |-> "clean"]

\* tables that hold every required column, some with defective cells
CompleteTables ==
    [file : {"ok"}, rows : RowCounts, extra : {0, 1}, missing : {{}},
     status : [DefectCols -> Statuses]]

\* tables that lack one of the required columns
IncompleteTables ==
    [file : {"ok"}, rows : RowCounts, extra : {0, 1},
     missing : {{c} : c \in Columns}, status : {AllClean}]

\* files that pd.read_csv cannot turn into a table
NoTables ==
    [file : FileStates \ {"ok"}, rows : {0}, extra : {0}, missing : {{}},
     status : {AllClean}]

Targets == CompleteTables \cup IncompleteTables \cup NoTables

StatusOf(status, c) == IF c \in DOMAIN status THEN status[c] ELSE "clean"

\* the dataframe before pd.read_csv has produced one
NoDF == [loaded |-> FALSE, rows |-> 0, columns |-> {}, extra |-> 0,
         status |-> AllClean, total_charges_numeric |-> FALSE]

\* pd.read_csv(data_path) on a file that parses
read_csv(t) ==
    [loaded |-> TRUE, rows |-> t.rows,
     columns |-> Columns \ t.missing,
     extra |-> t.extra, status |-> t.status,
     total_charges_numeric |-> FALSE]

\* the exception pd.read_csv raises, "none" when the file parses
read_csv_error(t) ==
    CASE t.file = "missing" -> "FileNotFoundError"
      [] t.file = "empty" -> "EmptyDataError"
      [] t.file = "unreadable" -> "Exception"
      [] OTHER -> "none"

\* df['TotalCharges'] = pd.to_numeric(df['TotalCharges'], errors='coerce')
to_numeric_TotalCharges(d) == [d EXCEPT !.total_charges_numeric = TRUE]

NumColumns(d) == Cardinality(d.columns) + d.extra

HasNulls(d, c) == StatusOf(d.status, c) \in {"nulls", "nulls_bad"}

HasBad(d, c) == StatusOf(d.status, c) \in {"bad", "nulls_bad"}

(***************************************************************************)
(* great_expectations, as data_validation uses it.                         *)
(***************************************************************************)
\* a column-value expectation on a column the batch lacks cannot be computed
Uncheckable(e, d) ==
    e.expectation_type \in ColumnValueTypes /\ e.column \notin d.columns

\* the outcome of one expectation on the batch
Holds(e, d) ==
    CASE e.expectation_type = "expect_table_row_count_to_be_between" ->
            d.rows >= ROW_MIN /\ d.rows <= ROW_MAX
      [] e.expectation_type = "expect_table_column_count_to_equal" ->
            NumColumns(d) = EXPECTED_COLUMN_COUNT
      [] e.expectation_type = "expect_column_to_exist" ->
            e.column \in d.columns
      [] e.expectation_type = "expect_column_values_to_not_be_null" ->
            ~HasNulls(d, e.column)
      [] e.expectation_type = "expect_column_values_to_be_of_type" ->
            d.total_charges_numeric
      [] OTHER -> ~HasBad(d, e.column)

\* result.result["observed_value"] as text, "" where the result dictionary
\* has no such key: the table-level and the dtype expectations have one
observed_value(e, d) ==
    CASE e.expectation_type = "expect_table_row_count_to_be_between" ->
            ToString(d.rows)
      [] e.expectation_type = "expect_table_column_count_to_equal" ->
            ToString(NumColumns(d))
      [] e.expectation_type = "expect_column_values_to_be_of_type" ->
            IF d.total_charges_numeric THEN "float64" ELSE "object"
      [] OTHER -> ""

\* an ExpectationValidationResult of validator.validate(), which catches a
\* check's exception and records it in the result
Evaluate(e, d) ==
    [expectation_type |-> e.expectation_type, column |-> e.column,
     success |-> IF Uncheckable(e, d) THEN FALSE ELSE Holds(e, d),
     exception |-> Uncheckable(e, d),
     observed_value |-> IF Uncheckable(e, d) THEN "" ELSE observed_value(e, d)]

\* validator.expect_*(...) evaluates at once and, unlike validate(), lets the
\* exception of a check that cannot be computed escape; the expectations
\* added are those before the first such call
RECURSIVE AddedBeforeRaise(_, _)
AddedBeforeRaise(calls, d) ==
    IF calls = << >> \/ Uncheckable(Head(calls), d) THEN << >>
    ELSE << Head(calls) >> \o AddedBeforeRaise(Tail(calls), d)

\* a context that keeps what an earlier call registered
get_context_persistent(registered) == registered

\* line 25: gx.get_context() gives every call an ephemeral context of its
\* own, with nothing registered in it
get_context(registered) == {}

\* lines 29-57: the names data_validation registers in its context
RegisteredNames ==
    {"churn_datasource", "churn_asset", "churn_batch_definition",
     "churn_validation_suite"}

\* line 30: add_pandas refuses a name the context already has
add_pandas_error(registered) ==
    IF "churn_datasource" \in registered THEN "DataContextError" ELSE "none"

\* lines 61-64: get_validator gives a validator that evaluates every
\* expectation as it is added
interactive_evaluation == TRUE

GroupKey(e) ==
    IF e.expectation_type \in TableLevel THEN "_nocolumn" ELSE e.column

RECURSIVE KeysInOrder(_, _)
KeysInOrder(s, seen) ==
    IF s = << >> THEN << >>
    ELSE IF GroupKey(Head(s)) \in seen THEN KeysInOrder(Tail(s), seen)
    ELSE << GroupKey(Head(s)) >>
            \o KeysInOrder(Tail(s), seen \cup {GroupKey(Head(s))})

WithKey(s, k) == SelectSeq(s, LAMBDA e : GroupKey(e) = k)

\* validate() evaluates the suite grouped by column: the groups in order of
\* first appearance, each group in suite order
process_expectations_for_validation(s) ==
    LET keys == KeysInOrder(s, {})
    IN  Flatten([i \in 1..Len(keys) |-> WithKey(s, keys[i])])

\* validation_result.results
validate(s, d) ==
    LET todo == process_expectations_for_validation(s)
    IN  [i \in 1..Len(todo) |-> Evaluate(todo[i], d)]

\* success when some check passes instead of when all do
suite_success_any(rs) == \E i \in 1..Len(rs) : rs[i].success

\* validation_result.success
suite_success(rs) == \A i \in 1..Len(rs) : rs[i].success

(***************************************************************************)
(* The aggregation of data_validation (lines 203-240).                     *)
(***************************************************************************)
\* sum(1 for r in results_list if r.success)
SuccessfulCount(rs) == Cardinality({i \in 1..Len(rs) : rs[i].success})

\* the failures of column checks only: table-level failures are dropped
failed_column_expectations(rs) ==
    SelectSeq(rs, LAMBDA r : ~r.success /\ r.column # "N/A")

\* [r for r in results_list if not r.success]
failed_expectations(rs) == SelectSeq(rs, LAMBDA r : ~r.success)

\* failed_expectations[:10]
Itemized(failed) == Take(failed, REPORT_LIMIT)

\* lines 234-235: hasattr(result.result, "observed_value"); result.result is
\* a dictionary, which has keys and no attribute of that name
hasattr_observed_value(r) == FALSE

\* lines 226-235: the "Observed: ..." line of each itemized failure, "" where
\* none is logged
ObservedLines(items) ==
    [i \in 1..Len(items) |->
        IF hasattr_observed_value(items[i]) THEN items[i].observed_value ELSE ""]

\* the limit compared with >= instead of >
Truncated_ge(failed) == Len(failed) >= REPORT_LIMIT

\* len(failed_expectations) > 10: the "... and N more failures" line
Truncated(failed) == Len(failed) > REPORT_LIMIT

\* f"{(successful/total*100):.2f}" in hundredths of a percent, total > 0
SuccessRate(successful, total) ==
    (successful * 20000 + total) \div (2 * total)

(***************************************************************************)
(* The entry points and what they do with the verdict.                     *)
(***************************************************************************)
EntryPoints == {"main", "run_validation", "module"}

\* main.py lines 32-48: the stage main() runs after each stage
after_stage_swapped(stage) ==
    CASE stage = "ingestion" -> "validation"
      [] stage = "validation" -> "splitting"
      [] stage = "splitting" -> "cleaning"
      [] OTHER -> "done"

after_stage(stage) ==
    CASE stage = "ingestion" -> "validation"
      [] stage = "validation" -> "cleaning"
      [] stage = "cleaning" -> "splitting"
      [] OTHER -> "done"

\* a stage whose except block logs the error and does not raise it again
swallows(stage) == FALSE

\* the except blocks of DataIngestion.execute, DataCleaning.execute and
\* DataSplitter.execute log the error and raise it again
reraises(stage) == TRUE

\* the verdict ignored: the pipeline never halts on it
halts_pipeline_never(v) == FALSE

\* main.py line 38: if not is_valid: ... return
halts_pipeline(v) == ~v

\* main.py line 40: main() returns, so the interpreter ends with status 0
main_invalid_status == 0

\* main.py line 52: sys.exit(1) in the except block
main_error_status == 1

\* scripts/run_validation.py line 12: sys.exit(0 if is_valid else 1)
run_validation_status(v) == IF v THEN 0 ELSE 1

\* data_validation.py line 255: exit(0 if success else 1)
module_status(v) == IF v THEN 0 ELSE 1

\* an except block that returns True
except_return_true == TRUE

\* data_validation.py lines 242-250: every except block returns False
except_return == FALSE

(***************************************************************************)
(* One column, cell by cell: how read_csv and to_numeric load it and how   *)
(* the expectations that are decided row by row count its cells.           *)
(***************************************************************************)
\* the fields of one column in the file: numbers, an empty field, a blank
FileCells == {"-1", "0", "72", "73", "", " "}

NumericText(s) == s \in {"-1", "0", "72", "73"}

ValueOf(s) ==
    CASE s = "-1" -> -1 [] s = "0" -> 0 [] s = "72" -> 72 [] OTHER -> 73

Num(v) == [kind |-> "num", v |-> v, s |-> ""]
Str(s) == [kind |-> "str", v |-> 0, s |-> s]
Null == [kind |-> "null", v |-> 0, s |-> ""]

\* line 19: read_csv parses a column of numbers and empty fields as numbers
\* and NaN; one field that is not a number leaves every field a string
read_csv_column(fc) ==
    IF \A i \in 1..Len(fc) : fc[i] = "" \/ NumericText(fc[i])
    THEN [i \in 1..Len(fc) |-> IF fc[i] = "" THEN Null ELSE Num(ValueOf(fc[i]))]
    ELSE [i \in 1..Len(fc) |-> IF fc[i] = "" THEN Null ELSE Str(fc[i])]

\* line 21: pd.to_numeric(..., errors='coerce'): a string that is a number
\* becomes the number, any other string becomes NaN
to_numeric(c) ==
    [i \in 1..Len(c) |->
        CASE c[i].kind = "str" /\ NumericText(c[i].s) -> Num(ValueOf(c[i].s))
          [] c[i].kind = "str" -> Null
          [] OTHER -> c[i]]

\* validate() dropping the missing cells from the dataframe it is given
batch_after_validate_dropna(c) == SelectSeq(c, LAMBDA x : x.kind # "null")

\* line 200: validator.validate() computes its metrics on the batch and
\* leaves the dataframe as it was
batch_after_validate(c) == c

HasText(c) == \E i \in 1..Len(c) : c[i].kind = "str"

\* the columns followed cell by cell
CellColumns == {"tenure", "TotalCharges", "SeniorCitizen", "customerID"}

\* the expectation types that are decided row by row
CellRuleTypes ==
    {"expect_column_values_to_not_be_null",
     "expect_column_values_to_be_in_set",
     "expect_column_values_to_be_between",
     "expect_column_values_to_be_unique"}

\* the expectations of the suite about column c that are decided row by row
ColumnSuite(c) ==
    SelectSeq(DeclaredSuite,
              LAMBDA e : e.column = c /\ e.expectation_type \in CellRuleTypes)

\* lines 176-189: min_value of the range expectations
min_value(c) == 0

\* lines 176-189: max_value of the range expectations
max_value(c) ==
    CASE c = "tenure" -> 72 [] c = "MonthlyCharges" -> 200 [] OTHER -> 10000

\* lines 107-109: the value set of SeniorCitizen
value_set(c) == {0, 1}

\* a range check with exclusive bounds
outside_range_strict(v, lo, hi) == v <= lo \/ v >= hi

\* expect_column_values_to_be_between: both bounds belong to the range
outside_range(v, lo, hi) == v < lo \/ v > hi

\* no expectation leaves the missing cells out
excludes_no_nulls(t) == FALSE

\* every row-by-row expectation leaves the missing cells out before it
\* applies its condition, except the not-null expectation itself
excludes_nulls(t) == t # "expect_column_values_to_not_be_null"

\* cell i of column c is unexpected under expectation e
Unexpected(e, c, i) ==
    LET t == e.expectation_type
        x == c[i]
    IN  IF x.kind = "null"
        THEN ~excludes_nulls(t)
        ELSE CASE t = "expect_column_values_to_not_be_null" -> FALSE
               [] t = "expect_column_values_to_be_between" ->
                      outside_range(x.v, min_value(e.column), max_value(e.column))
               [] t = "expect_column_values_to_be_in_set" ->
                      x.kind = "str" \/ x.v \notin value_set(e.column)
               [] OTHER -> \E j \in 1..Len(c) : j # i /\ c[j] = x

\* comparing strings with the numeric bounds raises inside the metric
CellUncheckable(e, c) ==
    e.expectation_type = "expect_column_values_to_be_between" /\ HasText(c)

\* the result of expectation e on column c
CellEvaluate(e, c) ==
    LET n == IF CellUncheckable(e, c) THEN 0
             ELSE Cardinality({i \in 1..Len(c) : Unexpected(e, c, i)})
    IN  [expectation_type |-> e.expectation_type, column |-> e.column,
         exception |-> CellUncheckable(e, c),
         element_count |-> Len(c), unexpected_count |-> n,
         success |-> ~CellUncheckable(e, c) /\ n = 0]

RECURSIVE SeqsUpTo(_, _)
SeqsUpTo(S, n) ==
    IF n = 0 THEN {<< >>}
    ELSE LET shorter == SeqsUpTo(S, n - 1)
         IN  shorter \cup {Append(q, x) : q \in {r \in shorter : Len(r) = n - 1},
                                           x \in S}

(***************************************************************************)
(* DataSplitter: train_test_split as execute() uses it.                    *)
(***************************************************************************)
\* test_size=0.2: the test part has ceil(0.2 * n) of the n rows
n_test(n) == (n + 4) \div 5

\* the train part has the other rows
n_train(n) == n - n_test(n)

\* train_test_split raises ValueError when a part would be empty
train_test_split_error(rows) ==
    IF Cardinality(rows) = 0 \/ n_train(Cardinality(rows)) = 0
    THEN "ValueError" ELSE "none"

\* the test parts the shuffle can pick: random_state fixes one of them, which
\* one depends on the permutation the generator yields
TestParts(rows) ==
    {T \in SUBSET rows : Cardinality(T) = n_test(Cardinality(rows))}

\* the second split applied to the whole dataset
second_split_input_data(whole, train_part) == whole

\* line 51: the second split divides the train part of the first
second_split_input(whole, train_part) == train_part

\* lines 57-59: the partitions in the order they are saved
Partitions == << "train", "test", "val" >>

\* lines 62-64: the config entry of each partition
ConfigKey(part) ==
    CASE part = "train" -> "dataset.train_data_path"
      [] part = "test" -> "dataset.test_data_path"
      [] OTHER -> "dataset.val_data_path"

(***************************************************************************)
(* The module globals of data_validation, used by several runs.            *)
(***************************************************************************)
\* the data files the runs of one process are meant for
Paths == {"a.csv", "b.csv", "c.csv"}

Runs == 1..MaxRuns

(***************************************************************************)
(* ConfigManager: dictionaries, key paths and the YAML file.               *)
(***************************************************************************)
\* a dictionary is written as the function from the key paths of its leaves
\* to their values; a leaf is a scalar or the empty dictionary
EMPTY_DICT == "{}"

Keys == {"dataset", "name"}

\* key_path.split('.'): a key path as the sequence of its keys
KeyPaths == {kp \in SeqsUpTo(Keys, MaxKeyDepth) : Len(kp) >= 1}

IsPrefix(a, b) == Len(a) <= Len(b) /\ SubSeq(b, 1, Len(a)) = a

ProperPrefix(a, b) == IsPrefix(a, b) /\ Len(a) < Len(b)

EmptyTree == [kp \in {} |-> ""]

\* what yaml.safe_load gives for an empty file
NoneConfig == [is_none |-> TRUE, tree |-> EmptyTree]

DictConfig(tree) == [is_none |-> FALSE, tree |-> tree]

\* config.py line 64: _config: Dict[str, Any] = {}
ClassConfig == DictConfig(EmptyTree)

\* the values get can return
DefaultNode == [kind |-> "default", scalar |-> "", tree |-> EmptyTree]
NoneNode == [kind |-> "none", scalar |-> "", tree |-> EmptyTree]
ScalarNode(x) == [kind |-> "scalar", scalar |-> x, tree |-> EmptyTree]
DictNode(tree) == [kind |-> "dict", scalar |-> "", tree |-> tree]

RootNode(cfg) == IF cfg.is_none THEN NoneNode ELSE DictNode(cfg.tree)

\* key in value
HasKey(tree, k) == \E leaf \in DOMAIN tree : leaf[1] = k

\* value[key]
Child(tree, k) ==
    IF << k >> \in DOMAIN tree /\ tree[<< k >>] # EMPTY_DICT
    THEN ScalarNode(tree[<< k >>])
    ELSE LET below == {leaf \in DOMAIN tree : leaf[1] = k /\ Len(leaf) > 1}
         IN  DictNode([kp \in {Tail(leaf) : leaf \in below} |-> tree[<< k >> \o kp]])

\* config.py lines 113-120: the loop of get over the keys
RECURSIVE Walk(_, _)
Walk(node, keys) ==
    IF keys = << >> THEN node
    ELSE IF node.kind = "dict" /\ HasKey(node.tree, Head(keys))
    THEN Walk(Child(node.tree, Head(keys)), Tail(keys))
    ELSE DefaultNode

\* config.py lines 112-120: ConfigManager.get(key_path, default)
get(cfg, key_path) == Walk(RootNode(cfg), key_path)

\* config.py line 72: not self._config
Falsy(cfg) == cfg.is_none \/ DOMAIN cfg.tree = {}

\* a file that does not exist
MissingFile == [exists |-> FALSE, blank |-> FALSE, lines |-> {}]

\* a file without content
BlankFile == [exists |-> TRUE, blank |-> TRUE, lines |-> {}]

\* config.py lines 41-42: yaml.dump writes one entry for every leaf
yaml_dump(tree) ==
    [exists |-> TRUE, blank |-> FALSE,
     lines |-> {<< leaf, tree[leaf] >> : leaf \in DOMAIN tree}]

\* config.py lines 21-23: yaml.safe_load reads the entries back; an empty
\* file gives None
yaml_safe_load(file) ==
    IF file.blank THEN NoneConfig
    ELSE DictConfig([leaf \in {l[1] : l \in file.lines} |->
                        (CHOOSE l \in file.lines : l[1] = leaf)[2]])

\* config.py lines 36-39: None has no item assignment and a scalar met on
\* the way down has neither setdefault nor item assignment
updater_error(cfg, key_path) ==
    IF cfg.is_none THEN "TypeError"
    ELSE IF \E leaf \in DOMAIN cfg.tree :
                ProperPrefix(leaf, key_path) /\ cfg.tree[leaf] # EMPTY_DICT
    THEN "TypeError"
    ELSE "none"

\* the value stored in a dictionary that holds nothing else
updater_update_alone(tree, key_path, value) ==
    [kp \in {key_path} |-> value]

\* config.py lines 35-39: setdefault down to the last dictionary, then the
\* assignment of the last key
updater_update(tree, key_path, value) ==
    LET kept == {leaf \in DOMAIN tree :
                    ~IsPrefix(key_path, leaf) /\ ~IsPrefix(leaf, key_path)}
    IN  [kp \in kept \cup {key_path} |->
            IF kp = key_path THEN value ELSE tree[kp]]

\* the configuration files of the process
ConfigFiles == {"a.yaml", "b.yaml"}

\* what a configuration file holds when the process starts
InitialFiles ==
    {MissingFile, BlankFile, yaml_dump(EmptyTree),
     yaml_dump([kp \in {<< "dataset", "name" >>} |-> "old"]),
     yaml_dump([kp \in {<< "name" >>} |-> "old"])}

\* every construction makes an object of its own
new_instance_always(n) == n + 1

\* config.py lines 66-69: __new__ makes an object only when there is none
new_instance(n) == IF n = 0 THEN 1 ELSE n

\* the values the callers store
UpdateValues == {"new"}

NoOp == [name |-> "none", error |-> "none", key_path |-> << >>,
         value |-> "", path |-> ""]

(***************************************************************************)
(* DataCleaning: the processors of the pipeline.                           *)
(***************************************************************************)
\* the rows a table can hold: two complete rows and one with a missing cell
RowValues == {"row1", "row2", "row_with_null"}

\* data_cleanup.py line 22: df.dropna()
NullValueHandler_process(rows) ==
    SelectSeq(rows, LAMBDA r : r # "row_with_null")

\* data_cleanup.py line 37: df.drop_duplicates(keep='first')
DuplicateRemover_process(rows) ==
    SelectSeq([i \in 1..Len(rows) |->
                  IF \E j \in 1..(i - 1) : rows[j] = rows[i]
                  THEN "dropped" ELSE rows[i]],
              LAMBDA r : r # "dropped")

\* data_cleanup.py line 75: result = proc.process(result)
process(proc, rows) ==
    IF proc = "NullValueHandler" THEN NullValueHandler_process(rows)
    ELSE DuplicateRemover_process(rows)

\* data_cleanup.py line 106: the pipeline made when none was given
DefaultPipeline == << "NullValueHandler", "DuplicateRemover" >>

\* data_cleanup.py line 105: self.pipeline is None
NoPipeline == << "None" >>

\* the pipelines a caller can hand to DataCleaning
Pipelines ==
    {<< >>, << "DuplicateRemover" >>, << "DuplicateRemover", "NullValueHandler" >>}

\* data_cleanup.py line 113: len(cleaned_df)/len(df)*100
retention_error(kept, total) ==
    IF total = 0 THEN "ZeroDivisionError" ELSE "none"

(***************************************************************************)
(* State.                                                                  *)
(***************************************************************************)
VARIABLES
    entry,          \* the entry point of this process
    target,         \* the file at data_path
    pc,             \* the stage the entry point is at
    stages,         \* the stages executed so far, in order
    exited,         \* the process has ended
    exit_status,    \* its exit status, once exited
    success_logged, \* "ML Pipeline completed successfully!" was logged
    failed_stage,   \* the stage whose execute() met an error, "none" if none
    vpc,            \* the position inside data_validation()
    df,             \* the loaded dataframe
    suite,          \* the expectations added to the suite
    results,        \* validation_result.results
    raised,         \* the exception data_validation caught, "none" if none
    is_valid,       \* the value data_validation returned
    report,         \* what data_validation logged about the results
    context,        \* the names registered in the data context in use
    evals,          \* how many times an expectation was evaluated so far
    run_no,         \* which call of data_validation() this is
    first_run,      \* what the first call returned and logged
    column,         \* the column followed cell by cell
    file_col,       \* its fields in the stored file
    col,            \* its cells in the dataframe
    cpc,            \* how far the column is: idle, loaded, coerced, done
    cresults,       \* the results of its expectations
    data_path,      \* the module global data_path of data_validation
    rpc,            \* where each validation run of the process is
    wanted,         \* the file each run is meant to validate
    got,            \* the file each run read
    spc,            \* where DataSplitter.execute is
    source_rows,    \* the number of rows of the file the splitter reads
    data,           \* the rows the splitter read
    train,          \* the train partition
    test,           \* the test partition
    val,            \* the validation partition
    saved,          \* the partitions whose file was written
    config_paths,   \* the config entries the splitter updated
    files,          \* what every configuration file holds
    cm_instances,   \* how many ConfigManager objects were made
    cm_config,      \* ConfigManager._config
    cm_path,        \* ConfigManager.config_path, "" before it is bound
    cm_loader,      \* a loader was made
    cm_updater,     \* the file the updater was made for, "" before
    cm_loaded,      \* a configuration has been loaded
    cm_op,          \* the last operation on the ConfigManager
    cm_before,      \* _config before the last operation
    cm_was_loaded,  \* cm_loaded before the last operation
    cm_ops,         \* the number of operations so far
    kpc,            \* where DataCleaning.execute is
    source_table,   \* the rows of the file the cleaning step reads
    readable,       \* pd.read_csv can read that file
    processors,     \* self.pipeline.processors, NoPipeline for no pipeline
    raw_df,         \* df, the table as read
    cleaned_df,     \* the table after the processors applied so far
    applied,        \* the processors applied so far, in order
    cleaned_written,\* the cleaned file was written
    clean_error     \* the exception execute raised, "none" if none

vars == << entry, target, pc, stages, exited, exit_status, success_logged,
           failed_stage,
           vpc, df, suite, results, raised, is_valid, report, context, evals,
           run_no, first_run,
           column, file_col, col, cpc, cresults,
           data_path, rpc, wanted, got,
           spc, source_rows, data, train, test, val, saved, config_paths,
           files, cm_instances, cm_config, cm_path, cm_loader, cm_updater,
           cm_loaded, cm_op, cm_before, cm_was_loaded, cm_ops,
           kpc, source_table, readable, processors, raw_df, cleaned_df,
           applied, cleaned_written, clean_error >>

pipeline_vars ==
    << pc, stages, exited, exit_status, success_logged, failed_stage >>

validation_vars ==
    << vpc, df, suite, results, raised, is_valid, report, context, evals >>

call_vars == << run_no, first_run >>

cell_vars == << column, file_col, col, cpc, cresults >>

\* what a run of an entry point leaves alone
conc_vars == << data_path, rpc, wanted, got >>

split_vars ==
    << spc, source_rows, data, train, test, val, saved, config_paths >>

cfg_vars ==
    << files, cm_instances, cm_config, cm_path, cm_loader, cm_updater,
       cm_loaded, cm_op, cm_before, cm_was_loaded, cm_ops >>

clean_vars ==
    << kpc, source_table, readable, processors, raw_df, cleaned_df, applied,
       cleaned_written, clean_error >>

late_vars == << cfg_vars, clean_vars >>

side_vars == << conc_vars, split_vars, late_vars >>

aux_vars == << cell_vars, call_vars, side_vars >>

main_vars == << entry, target, pipeline_vars, validation_vars, call_vars >>

\* no column is followed cell by cell
CellIdle ==
    /\ column = "none"
    /\ file_col = << >>
    /\ col = << >>
    /\ cpc = "idle"
    /\ cresults = << >>

NoReport ==
    [kind |-> "none", total |-> 0, successful |-> 0, rate_logged |-> FALSE,
     rate |-> 0, failed_total |-> 0, itemized |-> << >>,
     observed_lines |-> << >>, truncated |-> FALSE, more |-> 0]

\* what a call of data_validation() leaves to its caller
Outcome ==
    [is_valid |-> is_valid, raised |-> raised, results |-> results,
     report |-> report]

NoOutcome ==
    [is_valid |-> FALSE, raised |-> "none", results |-> << >>,
     report |-> NoReport]

\* the first call of data_validation() in this process has not returned
FirstCall ==
    /\ run_no = 1
    /\ first_run = NoOutcome

\* no run uses the module globals
ConcIdle ==
    /\ data_path = ""
    /\ rpc = << >>
    /\ wanted = << >>
    /\ got = << >>

\* the splitter is not running
SplitIdle ==
    /\ spc = "idle"
    /\ source_rows = 0
    /\ data = {}
    /\ train = {}
    /\ test = {}
    /\ val = {}
    /\ saved = {}
    /\ config_paths = {}

\* no ConfigManager was made
ConfigIdle ==
    /\ files = [f \in ConfigFiles |-> MissingFile]
    /\ cm_instances = 0
    /\ cm_config = ClassConfig
    /\ cm_path = ""
    /\ cm_loader = FALSE
    /\ cm_updater = ""
    /\ cm_loaded = FALSE
    /\ cm_op = NoOp
    /\ cm_before = ClassConfig
    /\ cm_was_loaded = FALSE
    /\ cm_ops = 0

\* the cleaning step is not running
CleanIdle ==
    /\ kpc = "idle"
    /\ source_table = << >>
    /\ readable = FALSE
    /\ processors = << >>
    /\ raw_df = << >>
    /\ cleaned_df = << >>
    /\ applied = << >>
    /\ cleaned_written = FALSE
    /\ clean_error = "none"

LateIdle == ConfigIdle /\ CleanIdle

SideIdle == ConcIdle /\ SplitIdle /\ LateIdle

Init ==
    /\ entry \in EntryPoints
    /\ target \in Targets
    /\ pc = IF entry = "main" THEN "ingestion" ELSE "validation"
    /\ stages = << >>
    /\ exited = FALSE
    /\ exit_status = 0
    /\ success_logged = FALSE
    /\ failed_stage = "none"
    /\ vpc = "idle"
    /\ df = NoDF
    /\ suite = << >>
    /\ results = << >>
    /\ raised = "none"
    /\ is_valid = FALSE
    /\ report = NoReport
    /\ context = {}
    /\ evals = 0
    /\ FirstCall
    /\ CellIdle
    /\ SideIdle

\* no entry point runs
MainIdle ==
    /\ entry = "none"
    /\ target = [file |-> "missing", rows |-> 0, extra |-> 0, missing |-> {},
                 status |-> AllClean]
    /\ pc = "done"
    /\ stages = << >>
    /\ exited = FALSE
    /\ exit_status = 0
    /\ success_logged = FALSE
    /\ failed_stage = "none"
    /\ vpc = "idle"
    /\ df = NoDF
    /\ suite = << >>
    /\ results = << >>
    /\ raised = "none"
    /\ is_valid = FALSE
    /\ report = NoReport
    /\ context = {}
    /\ evals = 0
    /\ FirstCall

(***************************************************************************)
(* data_validation().                                                      *)
(***************************************************************************)
\* an exception reaches one of the except blocks: log it and return
Caught(e) ==
    /\ raised' = e
    /\ is_valid' = except_return
    /\ vpc' = "returned"

\* line 19: df = pd.read_csv(data_path)
LoadData ==
    /\ pc = "validation" /\ vpc = "idle"
    /\ stages' = Append(stages, "validation")
    /\ IF read_csv_error(target) = "none"
       THEN /\ df' = read_csv(target)
            /\ vpc' = "loaded"
            /\ UNCHANGED << raised, is_valid >>
       ELSE /\ Caught(read_csv_error(target))
            /\ UNCHANGED df
    /\ UNCHANGED << entry, target, pc, exited, exit_status, success_logged,
                    failed_stage, suite, results, report, context, evals >>
    /\ UNCHANGED aux_vars

\* line 21: df['TotalCharges'] = pd.to_numeric(df['TotalCharges'], ...)
CoerceTotalCharges ==
    /\ vpc = "loaded"
    /\ IF "TotalCharges" \in df.columns
       THEN /\ df' = to_numeric_TotalCharges(df)
            /\ vpc' = "coerced"
            /\ UNCHANGED << raised, is_valid >>
       ELSE /\ Caught("KeyError")
            /\ UNCHANGED df
    /\ UNCHANGED << entry, target, suite, results, report, context, evals >>
    /\ UNCHANGED pipeline_vars
    /\ UNCHANGED aux_vars

\* lines 24-192: the context, the batch, the suite and every expect_* call
BuildSuite ==
    /\ vpc = "coerced"
    /\ IF add_pandas_error(get_context(context)) # "none"
       THEN /\ Caught(add_pandas_error(get_context(context)))
            /\ context' = get_context(context)
            /\ UNCHANGED << suite, evals >>
       ELSE /\ context' = get_context(context) \cup RegisteredNames
            /\ suite' = AddedBeforeRaise(DeclaredSuite, df)
            /\ IF Len(suite') = Len(DeclaredSuite)
               THEN /\ vpc' = "built"
                    /\ evals' = IF interactive_evaluation
                                THEN Len(suite') ELSE 0
                    /\ UNCHANGED << raised, is_valid >>
               ELSE /\ Caught("MetricResolutionError")
                    /\ evals' = IF interactive_evaluation
                                THEN Len(suite') + 1 ELSE 0
    /\ UNCHANGED << entry, target, df, results, report >>
    /\ UNCHANGED pipeline_vars
    /\ UNCHANGED aux_vars

\* lines 195-200: validation_result = validator.validate()
RunValidation ==
    /\ vpc = "built"
    /\ results' = validate(suite, df)
    /\ evals' = evals + Len(suite)
    /\ vpc' = "validated"
    /\ UNCHANGED << entry, target, df, suite, raised, is_valid, report,
                    context >>
    /\ UNCHANGED pipeline_vars
    /\ UNCHANGED aux_vars

\* lines 204-216: the statistics of a passing run
PassedReport(rs) ==
    LET total == Len(rs)
        successful == SuccessfulCount(rs)
    IN  [NoReport EXCEPT !.kind = "passed", !.total = total,
                         !.successful = successful, !.rate_logged = TRUE,
                         !.rate = SuccessRate(successful, total)]

\* lines 218-240: the itemized failures of a failing run
FailedReport(rs) ==
    LET failed == failed_expectations(rs)
    IN  [NoReport EXCEPT !.kind = "failed", !.failed_total = Len(failed),
                         !.itemized = Itemized(failed),
                         !.observed_lines = ObservedLines(Itemized(failed)),
                         !.truncated = Truncated(failed),
                         !.more = IF Truncated(failed)
                                  THEN Len(failed) - REPORT_LIMIT ELSE 0]

\* lines 203-240: if validation_result.success: ... else: ...
Report ==
    /\ vpc = "validated"
    /\ IF suite_success(results)
       THEN IF Len(results) = 0
            THEN /\ Caught("ZeroDivisionError")
                 /\ report' = [NoReport EXCEPT !.kind = "passed"]
            ELSE /\ report' = PassedReport(results)
                 /\ is_valid' = TRUE
                 /\ vpc' = "returned"
                 /\ UNCHANGED raised
       ELSE /\ report' = FailedReport(results)
            /\ is_valid' = FALSE
            /\ vpc' = "returned"
            /\ UNCHANGED raised
    /\ UNCHANGED << entry, target, df, suite, results, context, evals >>
    /\ UNCHANGED pipeline_vars
    /\ UNCHANGED aux_vars

(***************************************************************************)
(* main() and the scripts.                                                 *)
(***************************************************************************)
\* main.py and scripts/run_validation.py call DataValidation(...).execute();
\* the validation module defines data_validation() only, and execute() is
\* taken to run it and to return what it returns
DataValidation_execute == is_valid

\* a stage's execute() raised: main's except block logs and exits
StageRaised ==
    /\ pc' = "done"
    /\ exited' = TRUE
    /\ exit_status' = main_error_status
    /\ UNCHANGED success_logged

\* a stage's execute() returned: main() goes on; after the last stage it logs
\* the success message and returns
StageReturned(stage) ==
    /\ pc' = after_stage(stage)
    /\ IF after_stage(stage) = "done"
       THEN /\ exited' = TRUE
            /\ exit_status' = 0
            /\ success_logged' = TRUE
       ELSE UNCHANGED << exited, exit_status, success_logged >>

\* one stage of main(): its execute() completes, or meets an error that its
\* except block logs and raises again
RunStage(stage) ==
    /\ stages' = Append(stages, stage)
    /\ \E ok \in BOOLEAN :
          /\ failed_stage' = IF ok THEN failed_stage ELSE stage
          /\ IF ok \/ ~reraises(stage)
             THEN StageReturned(stage)
             ELSE StageRaised

\* main.py lines 32-33: ingestion.execute()
IngestionStage ==
    /\ entry = "main" /\ pc = "ingestion"
    /\ RunStage("ingestion")
    /\ UNCHANGED << entry, target >>
    /\ UNCHANGED validation_vars
    /\ UNCHANGED aux_vars

\* main.py lines 36-40: is_valid = validation.execute(); if not is_valid ...
MainVerdict ==
    /\ entry = "main" /\ pc = "validation" /\ vpc = "returned"
    /\ IF halts_pipeline(DataValidation_execute)
       THEN /\ pc' = "done"
            /\ exited' = TRUE
            /\ exit_status' = main_invalid_status
       ELSE /\ pc' = after_stage("validation")
            /\ UNCHANGED << exited, exit_status >>
    /\ UNCHANGED << entry, target, stages, success_logged, failed_stage >>
    /\ UNCHANGED validation_vars
    /\ UNCHANGED aux_vars

\* main.py lines 42-43: cleaning.execute()
CleaningStage ==
    /\ entry = "main" /\ pc = "cleaning"
    /\ RunStage("cleaning")
    /\ UNCHANGED << entry, target >>
    /\ UNCHANGED validation_vars
    /\ UNCHANGED aux_vars

\* main.py lines 45-48: splitter.execute(), then the success message
SplittingStage ==
    /\ entry = "main" /\ pc = "splitting"
    /\ RunStage("splitting")
    /\ UNCHANGED << entry, target >>
    /\ UNCHANGED validation_vars
    /\ UNCHANGED aux_vars

\* scripts/run_validation.py lines 11-12
ScriptExit ==
    /\ entry = "run_validation" /\ pc = "validation" /\ vpc = "returned"
    /\ pc' = "done"
    /\ exited' = TRUE
    /\ exit_status' = run_validation_status(DataValidation_execute)
    /\ UNCHANGED << entry, target, stages, success_logged, failed_stage >>
    /\ UNCHANGED validation_vars
    /\ UNCHANGED aux_vars

\* data_validation.py lines 253-255
ModuleExit ==
    /\ entry = "module" /\ pc = "validation" /\ vpc = "returned"
    /\ pc' = "done"
    /\ exited' = TRUE
    /\ exit_status' = module_status(is_valid)
    /\ UNCHANGED << entry, target, stages, success_logged, failed_stage >>
    /\ UNCHANGED validation_vars
    /\ UNCHANGED aux_vars

Next ==
    \/ LoadData
    \/ CoerceTotalCharges
    \/ BuildSuite
    \/ RunValidation
    \/ Report
    \/ IngestionStage
    \/ MainVerdict
    \/ CleaningStage
    \/ SplittingStage
    \/ ScriptExit
    \/ ModuleExit

Spec == Init /\ [][Next]_vars

(***************************************************************************)
(* One column through data_validation(), cell by cell.                     *)
(***************************************************************************)
CellInit ==
    /\ MainIdle
    /\ column \in CellColumns
    /\ file_col \in SeqsUpTo(FileCells, MaxCells)
    /\ col = << >>
    /\ cpc = "idle"
    /\ cresults = << >>
    /\ SideIdle

\* line 19: df = pd.read_csv(data_path)
CellLoad ==
    /\ column # "none" /\ cpc = "idle"
    /\ col' = read_csv_column(file_col)
    /\ cpc' = "loaded"
    /\ UNCHANGED << column, file_col, cresults >>
    /\ UNCHANGED main_vars
    /\ UNCHANGED side_vars

\* line 21: df['TotalCharges'] = pd.to_numeric(df['TotalCharges'], ...)
CellCoerce ==
    /\ cpc = "loaded" /\ column = "TotalCharges"
    /\ col' = to_numeric(col)
    /\ cpc' = "coerced"
    /\ UNCHANGED << column, file_col, cresults >>
    /\ UNCHANGED main_vars
    /\ UNCHANGED side_vars

\* line 200: validate() evaluates the next expectation about the column
CellCheck ==
    /\ cpc = IF column = "TotalCharges" THEN "coerced" ELSE "loaded"
    /\ LET k == Len(cresults) + 1
       IN  /\ k <= Len(ColumnSuite(column))
           /\ cresults' = Append(cresults, CellEvaluate(ColumnSuite(column)[k], col))
           /\ col' = batch_after_validate(col)
           /\ cpc' = IF k = Len(ColumnSuite(column)) THEN "done" ELSE cpc
    /\ UNCHANGED << column, file_col >>
    /\ UNCHANGED main_vars
    /\ UNCHANGED side_vars

CellNext == CellLoad \/ CellCoerce \/ CellCheck

CellSpec == CellInit /\ [][CellNext]_vars

(***************************************************************************)
(* A caller that runs data_validation() twice in one process on the same   *)
(* file.                                                                   *)
(***************************************************************************)
RerunInit ==
    /\ entry = "caller"
    /\ target \in Targets
    /\ pc = "validation"
    /\ stages = << >>
    /\ exited = FALSE
    /\ exit_status = 0
    /\ success_logged = FALSE
    /\ failed_stage = "none"
    /\ vpc = "idle"
    /\ df = NoDF
    /\ suite = << >>
    /\ results = << >>
    /\ raised = "none"
    /\ is_valid = FALSE
    /\ report = NoReport
    /\ context = {}
    /\ evals = 0
    /\ FirstCall
    /\ CellIdle
    /\ SideIdle

\* line 14: data_validation() is called again; its local variables start
\* afresh, the module and the library keep what they hold
SecondCall ==
    /\ entry = "caller" /\ vpc = "returned" /\ run_no = 1
    /\ first_run' = Outcome
    /\ run_no' = 2
    /\ vpc' = "idle"
    /\ df' = NoDF
    /\ suite' = << >>
    /\ results' = << >>
    /\ raised' = "none"
    /\ is_valid' = FALSE
    /\ report' = NoReport
    /\ evals' = 0
    /\ UNCHANGED << entry, target, context >>
    /\ UNCHANGED pipeline_vars
    /\ UNCHANGED cell_vars
    /\ UNCHANGED side_vars

RerunNext ==
    \/ LoadData
    \/ CoerceTotalCharges
    \/ BuildSuite
    \/ RunValidation
    \/ Report
    \/ SecondCall

RerunSpec == RerunInit /\ [][RerunNext]_vars

(***************************************************************************)
(* Several validation runs in one process, each meant for its own file.    *)
(* data_validation() takes no argument and reads the module global         *)
(* data_path, so a run is pointed at its file by assigning the global.     *)
(***************************************************************************)
ConcInit ==
    /\ MainIdle
    /\ CellIdle
    /\ SplitIdle
    /\ LateIdle
    /\ data_path \in Paths
    /\ wanted \in {w \in [Runs -> Paths] :
                      \A r1, r2 \in Runs : r1 # r2 => w[r1] # w[r2]}
    /\ rpc = [r \in Runs |-> "start"]
    /\ got = [r \in Runs |-> ""]

\* line 11: data_path = ...; the global is bound to the file of run r
PointAtTarget(r) ==
    /\ rpc[r] = "start"
    /\ data_path' = wanted[r]
    /\ rpc' = [rpc EXCEPT ![r] = "pointed"]
    /\ UNCHANGED << wanted, got >>
    /\ UNCHANGED << main_vars, cell_vars, split_vars, late_vars >>

\* line 19: df = pd.read_csv(data_path), the global read when the call runs
ConcLoad(r) ==
    /\ rpc[r] = "pointed"
    /\ got' = [got EXCEPT ![r] = data_path]
    /\ rpc' = [rpc EXCEPT ![r] = "loaded"]
    /\ UNCHANGED << data_path, wanted >>
    /\ UNCHANGED << main_vars, cell_vars, split_vars, late_vars >>

\* lines 203-250: the run returns its verdict
ConcReturn(r) ==
    /\ rpc[r] = "loaded"
    /\ rpc' = [rpc EXCEPT ![r] = "returned"]
    /\ UNCHANGED << data_path, wanted, got >>
    /\ UNCHANGED << main_vars, cell_vars, split_vars, late_vars >>

ConcNext ==
    \E r \in Runs : PointAtTarget(r) \/ ConcLoad(r) \/ ConcReturn(r)

ConcSpec == ConcInit /\ [][ConcNext]_vars

(***************************************************************************)
(* DataSplitter.execute.                                                   *)
(***************************************************************************)
SplitInit ==
    /\ MainIdle
    /\ CellIdle
    /\ ConcIdle
    /\ LateIdle
    /\ spc = "start"
    /\ source_rows \in 0..MaxRows
    /\ data = {}
    /\ train = {}
    /\ test = {}
    /\ val = {}
    /\ saved = {}
    /\ config_paths = {}

\* lines 68-71: the except block logs the error and raises it again
SplitRaised ==
    spc' = "failed"

\* lines 28-48: the directories, the data source and the read
SplitRead ==
    /\ spc = "start"
    /\ \E ok \in BOOLEAN :
          IF ok THEN /\ data' = 1..source_rows
                     /\ spc' = "read"
          ELSE /\ SplitRaised
               /\ UNCHANGED data
    /\ UNCHANGED << source_rows, train, test, val, saved, config_paths >>
    /\ UNCHANGED << main_vars, cell_vars, conc_vars, late_vars >>

\* line 50: train, test = train_test_split(data, test_size=0.2, ...)
SplitTest ==
    /\ spc = "read"
    /\ IF train_test_split_error(data) # "none"
       THEN /\ SplitRaised
            /\ UNCHANGED << train, test >>
       ELSE /\ \E T \in TestParts(data) :
                  /\ test' = T
                  /\ train' = data \ T
            /\ spc' = "split_test"
    /\ UNCHANGED << source_rows, data, val, saved, config_paths >>
    /\ UNCHANGED << main_vars, cell_vars, conc_vars, late_vars >>

\* line 51: train, val = train_test_split(train, test_size=0.2, ...)
SplitVal ==
    /\ spc = "split_test"
    /\ LET input == second_split_input(data, train)
       IN  IF train_test_split_error(input) # "none"
           THEN /\ SplitRaised
                /\ UNCHANGED << train, val >>
           ELSE /\ \E V \in TestParts(input) :
                      /\ val' = V
                      /\ train' = input \ V
                /\ spc' = "saving"
    /\ UNCHANGED << source_rows, data, test, saved, config_paths >>
    /\ UNCHANGED << main_vars, cell_vars, conc_vars, late_vars >>

\* lines 57-59: self._save_data(...) of the next partition
SaveData ==
    /\ spc = "saving"
    /\ \E ok \in BOOLEAN :
          IF ok
          THEN /\ saved' = saved \cup {Partitions[Cardinality(saved) + 1]}
               /\ spc' = IF Cardinality(saved') = Len(Partitions)
                         THEN "updating" ELSE "saving"
          ELSE /\ SplitRaised
               /\ UNCHANGED saved
    /\ UNCHANGED << source_rows, data, train, test, val, config_paths >>
    /\ UNCHANGED << main_vars, cell_vars, conc_vars, late_vars >>

\* lines 62-64: self.config_manager.update(...) of the next entry
UpdateConfig ==
    /\ spc = "updating"
    /\ \E ok \in BOOLEAN :
          IF ok
          THEN /\ config_paths' = config_paths
                    \cup {ConfigKey(Partitions[Cardinality(config_paths) + 1])}
               /\ spc' = IF Cardinality(config_paths') = Len(Partitions)
                         THEN "done" ELSE "updating"
          ELSE /\ SplitRaised
               /\ UNCHANGED config_paths
    /\ UNCHANGED << source_rows, data, train, test, val, saved >>
    /\ UNCHANGED << main_vars, cell_vars, conc_vars, late_vars >>

SplitNext ==
    SplitRead \/ SplitTest \/ SplitVal \/ SaveData \/ UpdateConfig

SplitSpec == SplitInit /\ [][SplitNext]_vars

(***************************************************************************)
(* The ConfigManager of one process and the operations made on it.         *)
(***************************************************************************)
ConfigInit ==
    /\ MainIdle
    /\ CellIdle
    /\ ConcIdle
    /\ SplitIdle
    /\ CleanIdle
    /\ files \in [ConfigFiles -> InitialFiles]
    /\ cm_instances = 0
    /\ cm_config = ClassConfig
    /\ cm_path = ""
    /\ cm_loader = FALSE
    /\ cm_updater = ""
    /\ cm_loaded = FALSE
    /\ cm_op = NoOp
    /\ cm_before = ClassConfig
    /\ cm_was_loaded = FALSE
    /\ cm_ops = 0

\* what every operation records about itself
Operation(name, error, key_path, value, path) ==
    /\ cm_op' = [name |-> name, error |-> error, key_path |-> key_path,
                 value |-> value, path |-> path]
    /\ cm_before' = cm_config
    /\ cm_was_loaded' = cm_loaded
    /\ cm_ops' = cm_ops + 1

\* config.py lines 127-128 and 105-106: self._config = self._load_config()
Reloaded(fs, error_of) ==
    IF fs[cm_path].exists
    THEN /\ cm_config' = yaml_safe_load(fs[cm_path])
         /\ cm_loaded' = TRUE
         /\ error_of = "none"
    ELSE /\ UNCHANGED << cm_config, cm_loaded >>
         /\ error_of = "FileNotFoundError"

\* config.py lines 66-77: ConfigManager(config_path); "" is no config_path
Construct(path) ==
    /\ cm_ops < MaxOps
    /\ cm_instances' = new_instance(cm_instances)
    /\ IF path = "" \/ ~Falsy(cm_config)
       THEN /\ Operation("construct", "none", << >>, "", path)
            /\ UNCHANGED << cm_config, cm_path, cm_loader, cm_updater,
                            cm_loaded >>
       ELSE /\ cm_path' = path
            /\ IF files[path].exists
               THEN /\ cm_loader' = TRUE
                    /\ cm_updater' = path
                    /\ cm_config' = yaml_safe_load(files[path])
                    /\ cm_loaded' = TRUE
                    /\ Operation("construct", "none", << >>, "", path)
               ELSE /\ Operation("construct", "FileNotFoundError", << >>, "",
                                 path)
                    /\ UNCHANGED << cm_config, cm_loader, cm_updater,
                                    cm_loaded >>
    /\ UNCHANGED files
    /\ UNCHANGED << main_vars, cell_vars, conc_vars, split_vars, clean_vars >>

\* config.py lines 122-125 and 30-42: update(key_path, value)
Update(key_path, value) ==
    /\ cm_ops < MaxOps /\ cm_instances > 0
    /\ IF cm_updater = ""
       THEN /\ Operation("update", "AttributeError", key_path, value, "")
            /\ UNCHANGED << files, cm_config, cm_loaded >>
       ELSE LET read == yaml_safe_load(files[cm_updater])
            IN  IF updater_error(read, key_path) # "none"
                THEN /\ Operation("update", updater_error(read, key_path),
                                  key_path, value, "")
                     /\ UNCHANGED << files, cm_config, cm_loaded >>
                ELSE /\ files' = [files EXCEPT ![cm_updater] =
                            yaml_dump(updater_update(read.tree, key_path, value))]
                     /\ \E e \in {"none", "FileNotFoundError"} :
                           /\ Reloaded(files', e)
                           /\ Operation("update", e, key_path, value, "")
    /\ UNCHANGED << cm_instances, cm_path, cm_loader, cm_updater >>
    /\ UNCHANGED << main_vars, cell_vars, conc_vars, split_vars, clean_vars >>

\* config.py lines 127-128: reload()
Reload ==
    /\ cm_ops < MaxOps /\ cm_instances > 0
    /\ IF ~cm_loader
       THEN /\ Operation("reload", "AttributeError", << >>, "", "")
            /\ UNCHANGED << cm_config, cm_loaded >>
       ELSE \E e \in {"none", "FileNotFoundError"} :
               /\ Reloaded(files, e)
               /\ Operation("reload", e, << >>, "", "")
    /\ UNCHANGED << files, cm_instances, cm_path, cm_loader, cm_updater >>
    /\ UNCHANGED << main_vars, cell_vars, conc_vars, split_vars, clean_vars >>

ConfigNext ==
    \/ \E path \in ConfigFiles \cup {""} : Construct(path)
    \/ \E key_path \in KeyPaths, value \in UpdateValues : Update(key_path, value)
    \/ Reload

ConfigSpec == ConfigInit /\ [][ConfigNext]_vars

(***************************************************************************)
(* DataCleaning.execute.                                                   *)
(***************************************************************************)
CleanInit ==
    /\ MainIdle
    /\ CellIdle
    /\ ConcIdle
    /\ SplitIdle
    /\ ConfigIdle
    /\ kpc = "start"
    /\ source_table \in SeqsUpTo(RowValues, MaxTableRows)
    /\ readable \in BOOLEAN
    /\ processors \in Pipelines \cup {NoPipeline}
    /\ raw_df = << >>
    /\ cleaned_df = << >>
    /\ applied = << >>
    /\ cleaned_written = FALSE
    /\ clean_error = "none"

\* data_cleanup.py lines 116-118: the except block logs and raises again
CleanRaised(e) ==
    /\ kpc' = "failed"
    /\ clean_error' = e

\* data_cleanup.py lines 86-103: the paths and df = pd.read_csv(...)
CleanRead ==
    /\ kpc = "start"
    /\ IF readable
       THEN /\ raw_df' = source_table
            /\ kpc' = "read"
            /\ UNCHANGED clean_error
       ELSE /\ CleanRaised("EmptyDataError")
            /\ UNCHANGED raw_df
    /\ UNCHANGED << source_table, readable, processors, cleaned_df, applied,
                    cleaned_written >>
    /\ UNCHANGED << main_vars, cell_vars, conc_vars, split_vars, cfg_vars >>

\* data_cleanup.py lines 105-106 and 71: the default pipeline, result = df.copy()
CleanPipeline ==
    /\ kpc = "read"
    /\ processors' = IF processors = NoPipeline THEN DefaultPipeline
                     ELSE processors
    /\ cleaned_df' = raw_df
    /\ kpc' = "processing"
    /\ UNCHANGED << source_table, readable, raw_df, applied, cleaned_written,
                    clean_error >>
    /\ UNCHANGED << main_vars, cell_vars, conc_vars, split_vars, cfg_vars >>

\* data_cleanup.py lines 72-76: the next processor of the pipeline
CleanProcess ==
    /\ kpc = "processing" /\ Len(applied) < Len(processors)
    /\ LET proc == processors[Len(applied) + 1]
       IN  /\ cleaned_df' = process(proc, cleaned_df)
           /\ applied' = Append(applied, proc)
    /\ UNCHANGED << kpc, source_table, readable, processors, raw_df,
                    cleaned_written, clean_error >>
    /\ UNCHANGED << main_vars, cell_vars, conc_vars, split_vars, cfg_vars >>

\* data_cleanup.py lines 109-110: cleaned_df.to_csv(save_file_path, ...)
CleanSave ==
    /\ kpc = "processing" /\ Len(applied) = Len(processors)
    /\ \E ok \in BOOLEAN :
          IF ok THEN /\ cleaned_written' = TRUE
                     /\ kpc' = "saved"
                     /\ UNCHANGED clean_error
          ELSE /\ CleanRaised("OSError")
               /\ UNCHANGED cleaned_written
    /\ UNCHANGED << source_table, readable, processors, raw_df, cleaned_df,
                    applied >>
    /\ UNCHANGED << main_vars, cell_vars, conc_vars, split_vars, cfg_vars >>

\* data_cleanup.py lines 112-115: the retention line, then return cleaned_df
CleanReturn ==
    /\ kpc = "saved"
    /\ IF retention_error(Len(cleaned_df), Len(raw_df)) # "none"
       THEN CleanRaised(retention_error(Len(cleaned_df), Len(raw_df)))
       ELSE /\ kpc' = "returned"
            /\ UNCHANGED clean_error
    /\ UNCHANGED << source_table, readable, processors, raw_df, cleaned_df,
                    applied, cleaned_written >>
    /\ UNCHANGED << main_vars, cell_vars, conc_vars, split_vars, cfg_vars >>

CleanNext ==
    CleanRead \/ CleanPipeline \/ CleanProcess \/ CleanSave \/ CleanReturn

CleanSpec == CleanInit /\ [][CleanNext]_vars

(***************************************************************************)
(* Properties.                                                             *)
(***************************************************************************)
Ran(stage) == stage \in Range(stages)

ConfigOf(r) == Exp(r.expectation_type, r.column)

\* C1: in a run of main(), once the validation verdict is false neither the
\* cleaning stage nor the splitting stage is executed.
C1_HaltsOnInvalid ==
    (entry = "main" /\ vpc = "returned" /\ ~is_valid)
        => (~Ran("cleaning") /\ ~Ran("splitting"))

C1_Witness ==
    entry = "main" /\ exited /\ report.kind = "failed" /\ ~is_valid

LaterStagesCompleted == entry # "main" \/ success_logged

\* C2: the verdict is the process's exit signal for every entry point: a
\* false verdict ends in a failure status, a true verdict whose later stages
\* complete ends in status 0.
C2_VerdictIsExitSignal ==
    (exited /\ vpc = "returned")
        => /\ ~is_valid => exit_status # 0
           /\ (is_valid /\ LaterStagesCompleted) => exit_status = 0

\* C3: evaluation never stops early: whatever table was loaded, the run ends
\* with a report holding a result for every declared rule, and a rule that
\* cannot be checked has a failing result tagged with its error.
C3_NeverStopsEarly ==
    (vpc = "returned" /\ df.loaded)
        => /\ report.kind # "none"
           /\ Len(results) = Len(DeclaredSuite)
           /\ \A i \in 1..Len(DeclaredSuite) :
                 Uncheckable(DeclaredSuite[i], df)
                    => \E j \in 1..Len(results) :
                          /\ ConfigOf(results[j]) = DeclaredSuite[i]
                          /\ ~results[j].success
                          /\ results[j].exception

\* C4: for every report the verdict is true iff the successful checks are all
\* the checks, that is iff no result has success = false.
C4_VerdictIffAllSucceed ==
    (vpc = "returned" /\ report.kind # "none")
        => /\ is_valid <=> (SuccessfulCount(results) = Len(results))
           /\ is_valid <=> (\A i \in 1..Len(results) : results[i].success)

C4_Witness ==
    vpc = "returned" /\ report.kind = "failed" /\ SuccessfulCount(results) > 0

\* C5: for every report the successful checks plus the failing results before
\* truncation are exactly the checks executed.
C5_CountsAddUp ==
    /\ report.kind = "passed"
          => report.successful + Len(failed_expectations(results)) = report.total
    /\ report.kind = "failed"
          => SuccessfulCount(results) + report.failed_total = Len(results)

C5_Witness ==
    report.kind = "failed" /\ report.failed_total > Len(report.itemized)

\* the sum of the per-rule check counts of the declared suite: one for each of
\* the two table-level rules, one per listed column of each column-wise rule
PerRuleCheckCount ==
    2 + Len(required_columns) + Len(not_null_columns) + Len(in_set_columns)
      + 3 + 1 + 1

\* the checks the declared rules ask for: one per table-level rule, one per
\* listed column of each column-wise rule
ExpectedChecks ==
    {Exp(t, "N/A") : t \in TableLevel}
      \cup {Exp("expect_column_to_exist", c) : c \in Range(required_columns)}
      \cup {Exp("expect_column_values_to_not_be_null", c) :
               c \in Range(not_null_columns)}
      \cup {Exp("expect_column_values_to_be_in_set", c) :
               c \in Range(in_set_columns)}
      \cup {Exp("expect_column_values_to_be_between", c) :
               c \in {"tenure", "MonthlyCharges", "TotalCharges"}}
      \cup {Exp("expect_column_values_to_be_of_type", "TotalCharges"),
            Exp("expect_column_values_to_be_unique", "customerID")}

\* C6: the number of checks in a report is the sum of the per-rule check
\* counts: the results are exactly one per check the rules ask for.
C6_TotalIsSumOfRules ==
    report.kind # "none"
        => /\ Len(results) = PerRuleCheckCount
           /\ report.kind = "passed" => report.total = PerRuleCheckCount
           /\ {ConfigOf(results[i]) : i \in 1..Len(results)} = ExpectedChecks

C6_Witness ==
    report.kind = "passed" /\ report.total = 65

\* C7: with n failing checks exactly min(n, 10) are itemized, and the report
\* says that more exist iff n > 10.
C7_Truncation ==
    report.kind = "failed"
        => LET n == Len(failed_expectations(results))
           IN  /\ Len(report.itemized) = IF n < 10 THEN n ELSE 10
               /\ report.truncated <=> n > 10
               /\ report.truncated => report.more = n - 10

C7_Witness ==
    report.kind = "failed" /\ report.truncated /\ Len(report.itemized) = 10

\* the failing results the declared order would give
DeclaredOrderFailures ==
    SelectSeq([i \in 1..Len(DeclaredSuite) |-> Evaluate(DeclaredSuite[i], df)],
              LAMBDA r : ~r.success)

\* C8: results come in the order the rules were declared, and the itemized
\* failures are the first failing results in that order.
C8_DeclarationOrder ==
    report.kind # "none"
        => /\ [i \in 1..Len(results) |-> ConfigOf(results[i])] = DeclaredSuite
           /\ report.kind = "failed"
                 => report.itemized = Take(DeclaredOrderFailures, 10)

C10_NoDataHalts ==
    (vpc = "returned" /\ target.file # "ok")
        => /\ raised # "none"
           /\ ~df.loaded /\ suite = << >> /\ results = << >>
           /\ report.kind = "none"
           /\ ~is_valid
           /\ ~Ran("cleaning") /\ ~Ran("splitting")

C10_Witness ==
    entry = "main" /\ exited /\ target.file = "missing"
        /\ raised = "FileNotFoundError"

StageOrder == << "ingestion", "validation", "cleaning", "splitting" >>

\* C11: in a run of main() the stages run one after the other in the order
\* ingestion, validation, cleaning, splitting: every stage starts after the
\* one before it has completed, and none runs twice.
C11_StageOrder ==
    entry = "main"
        => /\ stages = Take(StageOrder, Len(stages))
           /\ Ran("validation") => failed_stage # "ingestion"
           /\ Ran("cleaning") => (vpc = "returned" /\ failed_stage # "validation")
           /\ Ran("splitting") => failed_stage # "cleaning"

C11_Witness ==
    entry = "main" /\ exited /\ stages = StageOrder

\* C19: in main(), a stage that raises is the last stage executed and the
\* process ends with exit status 1; the success message is logged only after
\* all four stages completed without error and validation passed.
C19_ErrorStopsPipeline ==
    entry = "main"
        => /\ failed_stage # "none"
                => /\ exited /\ exit_status = 1
                   /\ stages[Len(stages)] = failed_stage
                   /\ ~success_logged
           /\ success_logged
                => /\ stages = StageOrder
                   /\ failed_stage = "none"
                   /\ is_valid /\ vpc = "returned"

C19_Witness ==
    entry = "main" /\ failed_stage = "cleaning" /\ exited /\ exit_status = 1

InRange(x, lo, hi) == x.kind = "num" /\ lo <= x.v /\ x.v <= hi

\* C12 as stated: from the moment the table is loaded to the end of the run
\* its cells are the cells read from the file.
C12_TableAsLoaded ==
    cpc # "idle" => col = read_csv_column(file_col)

\* C12: the stored file is never changed and no evaluation of an expectation
\* changes the table; the only change to the loaded table is the numeric
\* coercion of TotalCharges, made before any expectation is evaluated.
C12_ReadOnlyAfterCoercion ==
    [][/\ file_col' = file_col
       /\ col' # col => \/ cpc = "idle"
                        \/ /\ cpc = "loaded" /\ cpc' = "coerced"
                           /\ column = "TotalCharges" /\ cresults = << >>]_vars

C12_Witness ==
    /\ column = "TotalCharges" /\ cpc = "done"
    /\ col # read_csv_column(file_col)

\* C16: missing cells are never counted as unexpected by the range, value-set
\* and uniqueness expectations and are all counted by the not-null
\* expectation; TotalCharges has no not-null expectation, so cells that the
\* coercion made missing fail neither its range check nor the column.
C16_NullsExcluded ==
    LET present == SelectSeq(col, LAMBDA x : x.kind # "null")
        nulls == {i \in 1..Len(col) : col[i].kind = "null"}
    IN  /\ \A k \in 1..Len(cresults) :
              LET r == cresults[k]
              IN  IF r.expectation_type = "expect_column_values_to_not_be_null"
                  THEN r.unexpected_count = Cardinality(nulls)
                  ELSE /\ r.unexpected_count <= Len(present)
                       /\ r.unexpected_count =
                            CellEvaluate(ColumnSuite(column)[k], present).unexpected_count
        /\ column = "TotalCharges" /\ cpc = "done"
              => /\ \A k \in 1..Len(cresults) :
                        cresults[k].expectation_type
                            # "expect_column_values_to_not_be_null"
                 /\ (\A i \in 1..Len(present) : InRange(present[i], 0, 10000))
                        => \A k \in 1..Len(cresults) : cresults[k].success

C16_Witness ==
    /\ column = "TotalCharges" /\ cpc = "done"
    /\ \E i \in 1..Len(col) : file_col[i] = " " /\ col[i] = Null
    /\ \E i \in 1..Len(col) : col[i].kind = "num"
    /\ \A k \in 1..Len(cresults) : cresults[k].success

\* C17: a range check counts a value that is not missing as unexpected
\* exactly when it is below the minimum or above the maximum, the bounds
\* themselves being expected: tenure -1, 0, 72, 73 has two unexpected values.
C17_InclusiveRange ==
    \A k \in 1..Len(cresults) :
        LET r == cresults[k]
        IN  (r.expectation_type = "expect_column_values_to_be_between"
                /\ ~r.exception /\ column = "tenure")
                => /\ r.unexpected_count =
                        Cardinality({i \in 1..Len(col) :
                            col[i].kind = "num" /\ (col[i].v < 0 \/ col[i].v > 72)})
                   /\ file_col = << "-1", "0", "72", "73" >>
                        => r.unexpected_count = 2

C17_Witness ==
    /\ column = "tenure" /\ cpc = "done"
    /\ file_col = << "-1", "0", "72", "73" >>
    /\ \E k \in 1..Len(cresults) :
          /\ cresults[k].expectation_type = "expect_column_values_to_be_between"
          /\ cresults[k].unexpected_count = 2

\* C13: a second run of the suite on the same unchanged file gives the report
\* of the first: the same verdict, the same counts, the same results and the
\* same itemized failures in the same order; what the first run left behind
\* does not change the second.
C13_Idempotent ==
    (run_no = 2 /\ vpc = "returned") => Outcome = first_run

C13_Witness ==
    /\ run_no = 2 /\ vpc = "returned"
    /\ report.kind = "failed" /\ Len(report.itemized) > 1
    /\ "churn_datasource" \in context

\* C14: one run goes through Building, Evaluating and Aggregated in this
\* order: no expectation is evaluated before the suite is complete, every
\* expectation is evaluated once, and the report is made from the finished
\* evaluation.
C14_PhaseOrder ==
    /\ vpc \in {"idle", "loaded", "coerced", "built"} => evals = 0
    /\ vpc = "validated" => evals = Len(suite)
    /\ report.kind # "none" => (vpc = "returned" /\ evals = Len(suite))

\* C18: the column-count check of a table with 20 columns fails and the
\* report shows its observed value 20; every itemized failure that has an
\* observed value is reported with it.
C18_ObservedValueReported ==
    /\ (vpc = "returned" /\ df.loaded /\ NumColumns(df) = 20)
          => \E i \in 1..Len(report.itemized) :
                /\ report.itemized[i].expectation_type
                      = "expect_table_column_count_to_equal"
                /\ report.observed_lines[i] = "20"
    /\ report.kind = "failed"
          => \A i \in 1..Len(report.itemized) :
                report.itemized[i].observed_value # ""
                    => report.observed_lines[i] = report.itemized[i].observed_value

\* C15: validation runs of one process that are meant for different files are
\* independent and share no mutable state: each run validates its own file,
\* whatever the other runs do.
C15_RunsIndependent ==
    \A r \in DOMAIN rpc :
        rpc[r] \in {"loaded", "returned"} => got[r] = wanted[r]

Split == spc \in {"saving", "updating", "done"}

\* C20: the train, test and validation partitions of DataSplitter.execute are
\* pairwise disjoint and together are the rows read; a config entry is
\* updated only when the three partition files are saved, so after a failed
\* split no config path names a partition that was not written.
C20_PartitionThenConfig ==
    /\ Split => /\ train \cup test \cup val = data
                /\ train \cap test = {}
                /\ train \cap val = {}
                /\ test \cap val = {}
    /\ (Split \/ spc = "failed") /\ saved # {}
          => /\ train \cup test \cup val = data
             /\ Cardinality(train) + Cardinality(test) + Cardinality(val)
                   = Cardinality(data)
    /\ config_paths # {} => saved = Range(Partitions)
    /\ \A i \in 1..Len(Partitions) :
          ConfigKey(Partitions[i]) \in config_paths => Partitions[i] \in saved

C20_Witness ==
    /\ spc = "failed"
    /\ saved = Range(Partitions)
    /\ config_paths = {"dataset.train_data_path"}
    /\ Cardinality(val) > 0 /\ Cardinality(test) > 1

\* C21: there is one ConfigManager object however often it is constructed,
\* and once a configuration has been loaded a further construction, whatever
\* its path, leaves the configuration that get reads as it was.
C21_SingletonStable ==
    /\ cm_instances <= 1
    /\ (cm_op.name = "construct" /\ cm_was_loaded) => cm_config = cm_before

Related(a, b) == IsPrefix(a, b) \/ IsPrefix(b, a)

UpdateReturned == cm_op.name = "update" /\ cm_op.error = "none"

\* no dictionary on the way down the key path holds the next key
AbsentIn(cfg, key_path) ==
    cfg.is_none \/ ~\E leaf \in DOMAIN cfg.tree : IsPrefix(key_path, leaf)

C23_FailsBeforeWriting ==
    /\ kpc = "failed" => ~cleaned_written
    /\ clean_error # "ZeroDivisionError"
    /\ cleaned_written => (readable /\ applied = processors)

====
